---- MODULE Spec2Model ----
(***************************************************************************)
(* The subscription ledger of qfieldcloud (subscription/models.py) over    *)
(* the PostgreSQL tables it is stored in, with the exclusion constraints   *)
(* of sql_config.py and migration 0004.                                    *)
(*                                                                         *)
(* Time is a discrete clock (timezone.now()).  A table is a sequence of    *)
(* rows, the primary key of a row being its index.                         *)
(***************************************************************************)
EXTENDS Integers, Sequences, FiniteSets, TLC

VARIABLES
    clock,      \* timezone.now()
    plans,      \* table subscription_plan
    subs,       \* table subscription_subscription
    pkgs,       \* table of ExtraPackage rows
    tx,         \* the call each concurrent caller is in: its position, its
                \* arguments, its row locks and its uncommitted writes
    call        \* the last call of a method that reads no table: its name, its
                \* arguments and what it returned

vars == <<clock, plans, subs, pkgs, tx, call>>

----------------------------------------------------------------------------
(* Bounds of the model *)

MaxTime == 2

MaxSubs == 3

MaxPkgs == 2

MaxQuantity == 2

\* the calls each concurrent caller makes
MaxCalls == 1

----------------------------------------------------------------------------
(* Values *)

\* a NULL column / a None argument
NULL == -1

PERSON == "person"

ORGANIZATION == "organization"

INACTIVE_DRAFT == "inactive_draft"

INACTIVE_DRAFT_EXPIRED == "inactive_draft_expired"

INACTIVE_REQUESTED_CREATE == "inactive Requested_create"

INACTIVE_AWAITS_PAYMENT == "inactive_awaits_payment"

ACTIVE_PAID == "active_paid"

ACTIVE_PAST_DUE == "active_past_due"

INACTIVE_CANCELLED == "inactive_cancelled"

Status ==
    {INACTIVE_DRAFT, INACTIVE_DRAFT_EXPIRED, INACTIVE_REQUESTED_CREATE,
     INACTIVE_AWAITS_PAYMENT, ACTIVE_PAID, ACTIVE_PAST_DUE, INACTIVE_CANCELLED}

STORAGE == "storage"

PackageTypes == {STORAGE}

\* the accounts, and the type of the user of each (account.user.type)
Accounts == {1, 2}

AccountUserType(a) == IF a = 1 THEN PERSON ELSE ORGANIZATION

Times == 0..MaxTime

\* outcomes of a call
OK == "ok"

DoesNotExist == "DoesNotExist"

MultipleObjectsReturned == "MultipleObjectsReturned"

IntegrityError == "IntegrityError"

DataError == "DataError"

AttributeError == "AttributeError"

AssertionError == "AssertionError"

----------------------------------------------------------------------------
(* Plans *)

\* the two plans Plan.get_or_create_default creates in an empty table
DefaultPlans ==
    <<[code |-> "default_user", user_type |-> PERSON, is_default |-> TRUE, is_premium |-> FALSE],
      [code |-> "default_org", user_type |-> ORGANIZATION, is_default |-> TRUE, is_premium |-> FALSE]>>

\* a premium plan for persons, not the default one
PremiumPlan ==
    [code |-> "premium_user", user_type |-> PERSON, is_default |-> FALSE, is_premium |-> TRUE]

\* Plan.objects.get(user_type=..., is_default=True): the matching plans
DefaultPlanIds(userType) ==
    {p \in DOMAIN plans : plans[p].user_type = userType /\ plans[p].is_default}

----------------------------------------------------------------------------
(* Active periods and the exclusion constraints *)

\* SubscriptionQuerySet.active / ExtraPackageQuerySet.active at instant now:
\* active_since <= now AND (active_until IS NULL OR active_until >= now)
Active(row, now) ==
    /\ row.active_since # NULL
    /\ row.active_since <= now
    /\ (row.active_until = NULL \/ row.active_until >= now)

\* tstzrange(active_since, active_until) raises when lower > upper
RangeErrorNever(row) == FALSE

RangeError(row) ==
    /\ row.active_since # NULL
    /\ row.active_until # NULL
    /\ row.active_since > row.active_until

\* tstzrange(lo, hi) is [lo, hi): empty when lo = hi
RangeEmpty(row) ==
    row.active_until # NULL /\ row.active_since = row.active_until

\* the && of two ranges [since, until), until NULL being unbounded
RangesOverlap(a, b) ==
    /\ ~RangeEmpty(a)
    /\ ~RangeEmpty(b)
    /\ (b.active_until = NULL \/ a.active_since < b.active_until)
    /\ (a.active_until = NULL \/ b.active_since < a.active_until)

\* subscription_subscription_prevent_overlaps:
\* EXCLUDE (account_id WITH =, tstzrange(...) WITH &&) WHERE active_since IS NOT NULL
SubscriptionConflictNever(a, b) == FALSE

SubscriptionConflict(a, b) ==
    /\ a.active_since # NULL
    /\ b.active_since # NULL
    /\ a.account = b.account
    /\ RangesOverlap(a, b)

\* subscription_package_prevent_overlaps:
\* EXCLUDE (subscription_id WITH =, tstzrange(...) WITH &&) WHERE active_since IS NOT NULL
PackageConflict(a, b) ==
    /\ a.active_since # NULL
    /\ b.active_since # NULL
    /\ a.subscription = b.subscription
    /\ RangesOverlap(a, b)

\* the outcome of a statement that wrote the rows `written` of subscription table t
CheckSubscriptions(t, written) ==
    IF \E i \in written : RangeError(t[i])
    THEN DataError
    ELSE IF \E i \in written : \E j \in DOMAIN t : j # i /\ SubscriptionConflict(t[i], t[j])
         THEN IntegrityError
         ELSE OK

\* the outcome of a statement that wrote the rows `written` of package table t
CheckPackages(t, written) ==
    IF \E i \in written : RangeError(t[i])
    THEN DataError
    ELSE IF \E i \in written : \E j \in DOMAIN t : j # i /\ PackageConflict(t[i], t[j])
         THEN IntegrityError
         ELSE OK

\* transaction.atomic(): what is in the table when the block is left by an exception
RollbackNone(before, partial) == partial

Rollback(before, partial) == before

----------------------------------------------------------------------------
(* Rows *)

\* Subscription.objects.create(plan=, account=): the field defaults
DraftSubscription(account, plan) ==
    [account |-> account, plan |-> plan, status |-> INACTIVE_DRAFT,
     active_since |-> NULL, active_until |-> NULL]

\* the row create_default_plan_subscription inserts
DefaultPlanSubscription(account, plan, since) ==
    [account |-> account, plan |-> plan, status |-> ACTIVE_PAID,
     active_since |-> since, active_until |-> NULL]

\* the row update_package_quantity inserts
NewPackage(sid, type, quantity, now) ==
    [subscription |-> sid, type |-> type, quantity |-> quantity,
     active_since |-> now, active_until |-> NULL]

\* cls.objects.active().filter(account=account) at instant now
ActiveSubscriptions(t, account, now) ==
    {i \in DOMAIN t : t[i].account = account /\ Active(t[i], now)}

\* ExtraPackage.objects.active().filter(subscription=, type=) at instant now
ActivePackages(t, sid, type, now) ==
    {i \in DOMAIN t : t[i].subscription = sid /\ t[i].type = type /\ Active(t[i], now)}

\* no method that reads no table has been called
NoCall == [fn |-> "none", args |-> <<>>, ret |-> NULL]

\* the concurrent callers
Procs == {1, 2}

\* a caller between two calls, res being the outcome of its last call
\* (the count of its calls, and whether the last one had to wait, are kept
\* apart, see Return and Enter)
Idle(res) ==
    [pc |-> "idle", op |-> "none", id |-> NULL, account |-> NULL, status |-> INACTIVE_DRAFT,
     since |-> NULL, until |-> NULL, now |-> NULL,
     cand |-> {}, locks |-> {}, w |-> <<>>, res |-> res, calls |-> 0, waited |-> FALSE]

----------------------------------------------------------------------------
(* Subscription.create_default_plan_subscription *)

\* create_default_plan_subscription past its check of the active subscriptions:
\* the default of active_since, Plan.objects.get and the INSERT
CreateDefaultInsert(t, account, since, now) ==
    LET activeSince == IF since = NULL THEN now ELSE since
        defaults == DefaultPlanIds(AccountUserType(account))
    IN  IF Cardinality(defaults) = 0
        THEN [res |-> DoesNotExist, subs |-> t, ret |-> NULL]
        ELSE IF Cardinality(defaults) > 1
        THEN [res |-> MultipleObjectsReturned, subs |-> t, ret |-> NULL]
        ELSE LET plan == CHOOSE p \in defaults : TRUE
                 t1 == Append(t, DefaultPlanSubscription(account, plan, activeSince))
                 r1 == CheckSubscriptions(t1, {Len(t1)})
             IN  IF r1 = OK
                 THEN [res |-> OK, subs |-> t1, ret |-> Len(t1)]
                 ELSE [res |-> r1, subs |-> t, ret |-> NULL]

CreateDefaultUnchecked(t, account, since, now) ==
    CreateDefaultInsert(t, account, since, now)

\* the outcome of create_default_plan_subscription(account, since) and the table
\* after it, since = NULL being the default argument None
CreateDefault(t, account, since, now) ==
    IF ActiveSubscriptions(t, account, now) # {}
    \* the message of the exception reads active_subscription.id of a QuerySet
    THEN [res |-> AttributeError, subs |-> t, ret |-> NULL]
    ELSE CreateDefaultInsert(t, account, since, now)

create_default_plan_subscription(account, since) ==
    LET out == CreateDefault(subs, account, since, clock)
    IN  /\ (out.res = OK => Len(subs) < MaxSubs)
        /\ subs' = out.subs
        /\ UNCHANGED <<call, clock, plans, pkgs, tx>>

----------------------------------------------------------------------------
(* Subscription.get_or_create_active_subscription *)

GetOrCreate(t, account, now) ==
    LET act == ActiveSubscriptions(t, account, now)
    IN  IF Cardinality(act) = 1
        THEN [res |-> OK, subs |-> t, ret |-> CHOOSE i \in act : TRUE]
        ELSE IF Cardinality(act) > 1
        THEN [res |-> MultipleObjectsReturned, subs |-> t, ret |-> NULL]
        ELSE CreateDefault(t, account, NULL, now)

get_or_create_active_subscription(account) ==
    LET out == GetOrCreate(subs, account, clock)
    IN  /\ (Len(out.subs) > Len(subs) => Len(subs) < MaxSubs)
        /\ subs' = out.subs
        /\ UNCHANGED <<call, clock, plans, pkgs, tx>>

----------------------------------------------------------------------------
(* Subscription.update_subscription *)

\* the UPDATE of the other active subscriptions of the account
CloseOthersOnlyOne(t, id, since, now) ==
    LET others == ActiveSubscriptions(t, t[id].account, now) \ {id}
        one == IF others = {} THEN {} ELSE {CHOOSE i \in others : TRUE}
    IN  [i \in DOMAIN t |->
            IF i \in one
            THEN [t[i] EXCEPT !.status = INACTIVE_CANCELLED, !.active_until = since]
            ELSE t[i]]

CloseOthersAnyAccount(t, id, since, now) ==
    [i \in DOMAIN t |->
        IF i # id /\ Active(t[i], now)
        THEN [t[i] EXCEPT !.status = INACTIVE_CANCELLED, !.active_until = since]
        ELSE t[i]]

CloseOthers(t, id, since, now) ==
    LET others == ActiveSubscriptions(t, t[id].account, now) \ {id}
    IN  [i \in DOMAIN t |->
            IF i \in others
            THEN [t[i] EXCEPT !.status = INACTIVE_CANCELLED, !.active_until = since]
            ELSE t[i]]

\* subscription.save(update_fields=[status, active_since, active_until, *kwargs]);
\* kw is the plan passed in kwargs, NULL when kwargs is empty
SaveTarget(t, id, status, since, until, kw) ==
    [t EXCEPT ![id] = [@ EXCEPT !.status = status,
                                !.active_since = since,
                                !.active_until = until,
                                !.plan = IF kw = NULL THEN @ ELSE kw]]

UpdateSubscription(t, id, status, since, until, kw, now) ==
    IF id \notin DOMAIN t
    THEN [res |-> DoesNotExist, subs |-> t, ret |-> NULL]
    ELSE LET others == ActiveSubscriptions(t, t[id].account, now) \ {id}
             t1 == CloseOthers(t, id, since, now)
             r1 == CheckSubscriptions(t1, others)
             t2 == SaveTarget(t1, id, status, since, until, kw)
             r2 == CheckSubscriptions(t2, {id})
         IN  IF r1 # OK
             THEN [res |-> r1, subs |-> Rollback(t, t), ret |-> NULL]
             ELSE IF r2 # OK
             THEN [res |-> r2, subs |-> Rollback(t, t1), ret |-> NULL]
             ELSE [res |-> OK, subs |-> t2, ret |-> id]

update_subscription(id, status, since, until, kw) ==
    LET out == UpdateSubscription(subs, id, status, since, until, kw, clock)
    IN  /\ subs' = out.subs
        /\ UNCHANGED <<call, clock, plans, pkgs, tx>>

----------------------------------------------------------------------------
(* Subscription.update_package_quantity *)

\* the attribute error of reading an attribute the model instance lacks
NoAttribute == 0

\* self.subscription, read on a Subscription: the class has no such field,
\* property or reverse accessor (its packages are self.packages)
SelfSubscriptionIsSelf(sid) == sid

SelfSubscription(sid) == NoAttribute

\* the body of the transaction.atomic() block
UpdatePackageQuantityBody(t, sid, type, quantity, now) ==
    LET owner == SelfSubscription(sid)
        old == ActivePackages(t, owner, type, now)
        t1 == [i \in DOMAIN t |->
                  IF i \in old THEN [t[i] EXCEPT !.active_until = now] ELSE t[i]]
        r1 == CheckPackages(t1, old)
        t2 == Append(t1, NewPackage(sid, type, quantity, now))
        r2 == CheckPackages(t2, {Len(t2)})
    IN  IF owner = NoAttribute
        THEN [res |-> AttributeError, pkgs |-> Rollback(t, t), ret |-> NULL]
        ELSE IF Cardinality(old) > 1
        THEN [res |-> MultipleObjectsReturned, pkgs |-> Rollback(t, t), ret |-> NULL]
        ELSE IF r1 # OK
        THEN [res |-> r1, pkgs |-> Rollback(t, t), ret |-> NULL]
        ELSE IF quantity <= 0
        THEN [res |-> OK, pkgs |-> t1, ret |-> NULL]
        ELSE IF r2 # OK
        THEN [res |-> r2, pkgs |-> Rollback(t, t1), ret |-> NULL]
        ELSE [res |-> OK, pkgs |-> t2, ret |-> Len(t2)]

\* assert self.plan.is_premium
PlanIsPremiumAlways(plan) == TRUE

PlanIsPremium(plan) == plans[plan].is_premium

UpdatePackageQuantity(t, sid, type, quantity, now) ==
    IF ~PlanIsPremium(subs[sid].plan)
    THEN [res |-> AssertionError, pkgs |-> t, ret |-> NULL]
    ELSE UpdatePackageQuantityBody(t, sid, type, quantity, now)

update_package_quantity(sid, type, quantity) ==
    LET out == UpdatePackageQuantity(pkgs, sid, type, quantity, clock)
    IN  /\ (Len(out.pkgs) > Len(pkgs) => Len(pkgs) < MaxPkgs)
        /\ pkgs' = out.pkgs
        /\ UNCHANGED <<call, clock, plans, subs, tx>>

----------------------------------------------------------------------------
(* The environment *)

\* Subscription.objects.create(plan=plan, account=account, created_by=account.user)
CreateDraft(account, plan) ==
    /\ Len(subs) < MaxSubs
    /\ subs' = Append(subs, DraftSubscription(account, plan))
    /\ UNCHANGED <<call, clock, plans, pkgs, tx>>

\* time passes
Tick ==
    /\ clock < MaxTime
    /\ clock' = clock + 1
    /\ UNCHANGED <<call, plans, subs, pkgs, tx>>

----------------------------------------------------------------------------
(* The ledger, one call at a time *)

\* the plans a subscription is drafted on: those of the user type of the account
\* that are not its default plan
DraftPlans(a) ==
    {p \in DOMAIN plans : plans[p].user_type = AccountUserType(a) /\ ~plans[p].is_default}

\* the statuses update_subscription is called with
StatusArgs == {ACTIVE_PAID}

\* After migration 0004 (populate_subscriptions_model, add_packages_to_subscriptions):
\* the person account has its subscription, active_paid since the migration and
\* open-ended, on the plan of the account (the default or the premium one), with
\* the storage package of the account;
\* the organization account is new and has none.
Init ==
    /\ clock = 0
    /\ plans = Append(DefaultPlans, PremiumPlan)
    /\ \E p \in {1, 3} :
          subs = <<[account |-> 1, plan |-> p, status |-> ACTIVE_PAID,
                    active_since |-> 0, active_until |-> NULL]>>
    /\ pkgs = <<NewPackage(1, STORAGE, 1, 0)>>
    /\ tx = [p \in Procs |-> Idle(OK)]
    /\ call = NoCall

Next ==
    \/ Tick
    \/ \E a \in Accounts : \E p \in DraftPlans(a) : CreateDraft(a, p)
    \/ \E a \in Accounts, s \in Times \cup {NULL} : create_default_plan_subscription(a, s)
    \/ \E a \in Accounts : get_or_create_active_subscription(a)
    \/ \E id \in 1..MaxSubs, st \in StatusArgs, s \in Times, u \in Times \cup {NULL}, kw \in {NULL} :
          update_subscription(id, st, s, u, kw)
    \/ \E sid \in DOMAIN subs, ty \in PackageTypes, q \in 0..MaxQuantity :
          update_package_quantity(sid, ty, q)

Spec == Init /\ [][Next]_vars

----------------------------------------------------------------------------
(* Concurrent callers.  Each caller runs its call statement by statement    *)
(* against the database (READ COMMITTED): update_subscription inside        *)
(* transaction.atomic(), the query and the INSERT of                        *)
(* create_default_plan_subscription in autocommit.  `subs` is the committed *)
(* table.                                                                   *)

Other(p) == CHOOSE q \in Procs : q # p

\* the rows as the statements of p see them: the committed ones and its own writes
View(p) ==
    [i \in DOMAIN subs |-> IF i \in DOMAIN tx[p].w THEN tx[p].w[i] ELSE subs[i]]

\* row i is locked (SELECT ... FOR UPDATE, or updated) by the transaction of another caller
LockedByOther(p, i) == \E q \in Procs \ {p} : i \in tx[q].locks

\* The exclusion constraint, as the statement of p that writes the rows `written`
\* of its view t meets it: an error against a committed row or a row of its own,
\* a wait against the old or the new version of a row that the open transaction of
\* another caller has written
DefiniteConflict(p, t, written) ==
    \E i \in written : \E j \in DOMAIN t :
        /\ j # i
        /\ \A q \in Procs \ {p} : j \notin DOMAIN tx[q].w
        /\ SubscriptionConflict(t[i], t[j])

TentativeConflict(p, t, written) ==
    \E i \in written : \E q \in Procs \ {p} : \E j \in DOMAIN tx[q].w :
        /\ j # i
        /\ (SubscriptionConflict(t[i], subs[j]) \/ SubscriptionConflict(t[i], tx[q].w[j]))

\* "wait" while the statement has to wait, else its outcome
StatementOutcome(p, t, written) ==
    IF \E i \in written : RangeError(t[i])
    THEN DataError
    ELSE IF DefiniteConflict(p, t, written)
    THEN IntegrityError
    ELSE IF TentativeConflict(p, t, written)
    THEN "wait"
    ELSE OK

\* the transaction of p is rolled back: its writes are dropped, its locks released
\* p leaves its call with outcome res
Return(p, res) ==
    [Idle(res) EXCEPT !.op = tx[p].op, !.calls = tx[p].calls, !.waited = tx[p].waited]

\* p starts a call
Enter(p, op) == [Idle(OK) EXCEPT !.op = op, !.calls = tx[p].calls + 1]

Abort(p, res) == tx' = [tx EXCEPT ![p] = Return(p, res)]

\* with transaction.atomic(): cls.objects.select_for_update().get(id=subscription.id)
LockTarget(p, id, status, since, until) ==
    /\ tx[p].pc = "idle"
    /\ tx[p].calls < MaxCalls
    /\ ~LockedByOther(p, id)
    /\ IF id \in DOMAIN subs
       THEN tx' = [tx EXCEPT ![p] = [Enter(p, "update") EXCEPT !.pc = "locked", !.id = id,
                                        !.status = status, !.since = since,
                                        !.until = until, !.locks = {id}]]
       ELSE tx' = [tx EXCEPT ![p] = [Enter(p, "update") EXCEPT !.res = DoesNotExist]]
    /\ UNCHANGED <<call, clock, plans, subs, pkgs>>

\* the UPDATE of the other active subscriptions starts: the rows its snapshot selects
SnapshotOthers(p) ==
    /\ tx[p].pc = "locked"
    /\ tx' = [tx EXCEPT ![p].pc = "snapshot",
                        ![p].now = clock,
                        ![p].cand = ActiveSubscriptions(View(p), subs[tx[p].id].account, clock)
                                        \ {tx[p].id}]
    /\ UNCHANGED <<call, clock, plans, subs, pkgs>>

\* the rows the UPDATE of p writes: the selected ones whose latest version still
\* satisfies its WHERE
HitRows(p) ==
    {i \in tx[p].cand :
        subs[i].account = subs[tx[p].id].account /\ Active(subs[i], tx[p].now)}

\* the view of p after its UPDATE
ClosedRows(p) ==
    [i \in DOMAIN subs |->
        IF i \in HitRows(p)
        THEN [subs[i] EXCEPT !.status = INACTIVE_CANCELLED, !.active_until = tx[p].since]
        ELSE View(p)[i]]

\* the view of p after the save of its target
SavedRows(p) ==
    SaveTarget(View(p), tx[p].id, tx[p].status, tx[p].since, tx[p].until, NULL)

\* the table after the INSERT of p
InsertedRows(p) ==
    LET c == tx[p]
        plan == CHOOSE d \in DefaultPlanIds(AccountUserType(c.account)) : TRUE
    IN  Append(subs, DefaultPlanSubscription(c.account, plan,
                                             IF c.since = NULL THEN clock ELSE c.since))

\* the UPDATE has to wait: for the lock of a selected row, or on the constraint
CloseSelectedWaits(p) ==
    \/ \E i \in tx[p].cand : LockedByOther(p, i)
    \/ StatementOutcome(p, ClosedRows(p), HitRows(p)) = "wait"

\* the save of the target has to wait on the constraint
SaveLockedWaits(p) ==
    StatementOutcome(p, SavedRows(p), {tx[p].id}) = "wait"

\* the INSERT has to wait on the constraint
InsertDefaultWaits(p) ==
    /\ Cardinality(DefaultPlanIds(AccountUserType(tx[p].account))) = 1
    /\ StatementOutcome(p, InsertedRows(p), {Len(subs) + 1}) = "wait"

\* the statement p has issued is blocked in the database
Blocked(p) ==
    \/ tx[p].pc = "snapshot" /\ CloseSelectedWaits(p)
    \/ tx[p].pc = "closed" /\ SaveLockedWaits(p)
    \/ tx[p].pc = "checked" /\ InsertDefaultWaits(p)

\* p issues a statement and the database makes it wait
Wait(p) ==
    /\ Blocked(p)
    /\ ~tx[p].waited
    /\ tx' = [tx EXCEPT ![p].waited = TRUE]
    /\ UNCHANGED <<call, clock, plans, subs, pkgs>>

\* the UPDATE locks the selected rows, waiting for the transactions that hold them,
\* and writes those whose latest version still satisfies its WHERE
CloseSelected(p) ==
    /\ tx[p].pc = "snapshot"
    /\ ~CloseSelectedWaits(p)
    /\ LET r1 == StatementOutcome(p, ClosedRows(p), HitRows(p))
       IN  IF r1 = OK
           THEN tx' = [tx EXCEPT ![p].pc = "closed",
                                 ![p].locks = @ \cup tx[p].cand,
                                 ![p].w = [i \in HitRows(p) |-> ClosedRows(p)[i]]]
           ELSE Abort(p, r1)
    /\ UNCHANGED <<call, clock, plans, subs, pkgs>>

\* subscription.save(update_fields=...)
SaveLocked(p) ==
    /\ tx[p].pc = "closed"
    /\ ~SaveLockedWaits(p)
    /\ LET r2 == StatementOutcome(p, SavedRows(p), {tx[p].id})
       IN  IF r2 = OK
           THEN tx' = [tx EXCEPT ![p].pc = "saved",
                                 ![p].w = [i \in DOMAIN tx[p].w \cup {tx[p].id} |->
                                              SavedRows(p)[i]]]
           ELSE Abort(p, r2)
    /\ UNCHANGED <<call, clock, plans, subs, pkgs>>

\* the atomic block is left: COMMIT
Commit(p) ==
    /\ tx[p].pc = "saved"
    /\ subs' = View(p)
    /\ tx' = [tx EXCEPT ![p] = Return(p, OK)]
    /\ UNCHANGED <<call, clock, plans, pkgs>>

\* get_or_create_active_subscription: cls.objects.active().get(account_id=account.pk)
GetActive(p, account) ==
    /\ tx[p].pc = "idle"
    /\ tx[p].calls < MaxCalls
    /\ LET act == ActiveSubscriptions(subs, account, clock)
       IN  IF Cardinality(act) = 1
           THEN tx' = [tx EXCEPT ![p] = Enter(p, "get_or_create")]
           ELSE IF Cardinality(act) > 1
           THEN tx' = [tx EXCEPT ![p] = [Enter(p, "get_or_create") EXCEPT
                                            !.res = MultipleObjectsReturned]]
           ELSE tx' = [tx EXCEPT ![p] = [Enter(p, "get_or_create") EXCEPT
                                            !.pc = "create", !.account = account]]
    /\ UNCHANGED <<call, clock, plans, subs, pkgs>>

\* create_default_plan_subscription: the query of the active subscriptions;
\* entered by a call of its own (account, since) or from get_or_create
CheckNoneActive(p, account, since) ==
    /\ \/ tx[p].pc = "idle" /\ tx[p].calls < MaxCalls
       \/ tx[p].pc = "create" /\ account = tx[p].account /\ since = NULL
    /\ LET c == IF tx[p].pc = "idle" THEN Enter(p, "create_default") ELSE tx[p]
       IN  IF ActiveSubscriptions(subs, account, clock) # {}
           THEN tx' = [tx EXCEPT ![p] = [c EXCEPT !.pc = "idle", !.account = NULL,
                                                  !.res = AttributeError]]
           ELSE tx' = [tx EXCEPT ![p] = [c EXCEPT !.pc = "checked", !.account = account,
                                                  !.since = since]]
    /\ UNCHANGED <<call, clock, plans, subs, pkgs>>

\* create_default_plan_subscription: Plan.objects.get and the INSERT
InsertDefault(p) ==
    /\ tx[p].pc = "checked"
    /\ ~InsertDefaultWaits(p)
    /\ LET defaults == DefaultPlanIds(AccountUserType(tx[p].account))
           r1 == StatementOutcome(p, InsertedRows(p), {Len(subs) + 1})
       IN  IF Cardinality(defaults) # 1
           THEN /\ subs' = subs
                /\ tx' = [tx EXCEPT ![p] = Return(p, IF defaults = {} THEN DoesNotExist
                                                      ELSE MultipleObjectsReturned)]
           ELSE /\ r1 = OK => Len(subs) < MaxSubs
                /\ subs' = IF r1 = OK THEN InsertedRows(p) ELSE subs
                /\ tx' = [tx EXCEPT ![p] = Return(p, r1)]
    /\ UNCHANGED <<call, clock, plans, pkgs>>

\* the person account has drafted two subscriptions, and has its subscription
\* of the migration or none yet
InitConcurrent ==
    /\ clock = 0
    /\ plans = Append(DefaultPlans, PremiumPlan)
    /\ subs \in {<<DraftSubscription(1, 3), DraftSubscription(1, 3)>>,
                 <<DraftSubscription(1, 3), DraftSubscription(1, 3),
                   DefaultPlanSubscription(1, 1, 0)>>}
    /\ pkgs = <<>>
    /\ tx = [p \in Procs |-> Idle(OK)]
    /\ call = NoCall

NextConcurrent ==
    \/ Tick
    \/ \E p \in Procs :
          \/ \E id \in 1..MaxSubs, st \in StatusArgs, s \in Times, u \in Times \cup {NULL} :
                LockTarget(p, id, st, s, u)
          \/ SnapshotOthers(p)
          \/ CloseSelected(p)
          \/ SaveLocked(p)
          \/ Commit(p)
          \/ \E a \in Accounts : GetActive(p, a)
          \/ \E a \in Accounts, s \in Times \cup {NULL} : CheckNoneActive(p, a, s)
          \/ InsertDefault(p)
          \/ Wait(p)

SpecConcurrent == InitConcurrent /\ [][NextConcurrent]_vars

----------------------------------------------------------------------------
(* Plan.save and Plan.get_or_create_default, one call at a time *)

\* the rows of the plan table
MaxPlans == 3

ValidationError == "ValidationError"

\* a user type that is neither PERSON nor ORGANIZATION
TEAM == "team"

UserTypeArgs == {PERSON, ORGANIZATION, TEAM}

\* Plan.code, unique=True
PlanCodes == {"default_user", "default_org", "premium_user"}

\* Plan.objects.filter(user_type=self.user_type).update(is_default=False)
UnsetDefaultsNever(t, userType) == t

UnsetDefaults(t, userType) ==
    [i \in DOMAIN t |->
        IF t[i].user_type = userType THEN [t[i] EXCEPT !.is_default = FALSE] ELSE t[i]]

\* the unique index on Plan.code, for the row `written`
CodeConflict(t, written) ==
    \E j \in DOMAIN t : j # written /\ t[j].code = t[written].code

\* Plan.save() of the instance with the given fields; id is the primary key of
\* the instance, NULL for an instance that has not been saved yet
PlanSave(t, id, code, userType, isDefault, isPremium) ==
    LET row == [code |-> code, user_type |-> userType,
                is_default |-> isDefault, is_premium |-> isPremium]
        t1 == IF isDefault THEN UnsetDefaults(t, userType) ELSE t
        t2 == IF id = NULL THEN Append(t1, row) ELSE [t1 EXCEPT ![id] = row]
        at == IF id = NULL THEN Len(t2) ELSE id
    IN  IF userType \notin {PERSON, ORGANIZATION}
        THEN [res |-> ValidationError, plans |-> t, ret |-> NULL]
        ELSE IF CodeConflict(t2, at)
        THEN [res |-> IntegrityError, plans |-> Rollback(t, t1), ret |-> NULL]
        ELSE [res |-> OK, plans |-> t2, ret |-> at]

plan_save(id, code, userType, isDefault, isPremium) ==
    LET out == PlanSave(plans, id, code, userType, isDefault, isPremium)
    IN  /\ (id = NULL => Len(plans) < MaxPlans)
        /\ plans' = out.plans
        /\ UNCHANGED <<call, clock, subs, pkgs, tx>>

\* cls.objects.count() == 0
PlansEmptyAlways(t) == TRUE

PlansEmpty(t) == Len(t) = 0

\* cls.objects.order_by("-is_default").first(): the rows that can come first,
\* the order among rows of equal is_default being left to the database
FirstByIsDefault(t) ==
    {i \in DOMAIN t : \A j \in DOMAIN t : t[j].is_default => t[i].is_default}

\* Plan.get_or_create_default(): the outcome, the table after it and the rows
\* it can return
GetOrCreateDefault(t) ==
    LET c1 == PlanSave(t, NULL, DefaultPlans[1].code, DefaultPlans[1].user_type,
                       DefaultPlans[1].is_default, DefaultPlans[1].is_premium)
        c2 == PlanSave(c1.plans, NULL, DefaultPlans[2].code, DefaultPlans[2].user_type,
                       DefaultPlans[2].is_default, DefaultPlans[2].is_premium)
    IN  IF ~PlansEmpty(t)
        THEN [res |-> OK, plans |-> t, ret |-> FirstByIsDefault(t)]
        ELSE IF c1.res # OK
        THEN [res |-> c1.res, plans |-> Rollback(t, t), ret |-> {}]
        ELSE IF c2.res # OK
        THEN [res |-> c2.res, plans |-> Rollback(t, c1.plans), ret |-> {}]
        ELSE [res |-> OK, plans |-> c2.plans, ret |-> FirstByIsDefault(c2.plans)]

get_or_create_default ==
    LET out == GetOrCreateDefault(plans)
    IN  /\ plans' = out.plans
        /\ UNCHANGED <<call, clock, subs, pkgs, tx>>

\* an empty plan table, or the plans of the ledger
InitPlans ==
    /\ clock = 0
    /\ plans \in {<<>>, Append(DefaultPlans, PremiumPlan)}
    /\ subs = <<>>
    /\ pkgs = <<>>
    /\ tx = [p \in Procs |-> Idle(OK)]
    /\ call = NoCall

NextPlans ==
    \/ \E id \in DOMAIN plans \cup {NULL}, code \in PlanCodes, ut \in UserTypeArgs,
          d \in BOOLEAN, pr \in BOOLEAN :
          plan_save(id, code, ut, d, pr)
    \/ get_or_create_default

SpecPlans == InitPlans /\ [][NextPlans]_vars

----------------------------------------------------------------------------
(* Concurrent Plan saves.  Each caller saves one plan with is_default set,  *)
(* its save running statement by statement in a transaction of its own      *)
(* (READ COMMITTED).  `plans` is the committed table.                        *)

OperationalError == "OperationalError"

\* the code of the plan a caller creates
NewPlanCode(p) == IF p = 1 THEN "new_plan_1" ELSE "new_plan_2"

\* the instance p saves: a new plan, or the plan `id` as read from the table,
\* of user type userType and with is_default set
PlanInstance(p, id, userType) ==
    IF id = NULL
    THEN [code |-> NewPlanCode(p), user_type |-> userType,
          is_default |-> TRUE, is_premium |-> FALSE]
    ELSE [plans[id] EXCEPT !.user_type = userType, !.is_default = TRUE]

\* p calls save() on its instance, which passes the check of the user type
BeginSave(p, id, userType) ==
    /\ tx[p].pc = "idle"
    /\ tx[p].calls < MaxCalls
    /\ id # NULL => tx[Other(p)].id # id
    /\ tx' = [tx EXCEPT ![p] = [Enter(p, "plan_save") EXCEPT !.pc = "plan_begin", !.id = id]
                                   @@ [row |-> PlanInstance(p, id, userType)]]
    /\ UNCHANGED <<call, clock, plans, subs, pkgs>>

\* the UPDATE that unsets the defaults starts: the rows its snapshot selects
SnapshotDefaults(p) ==
    /\ tx[p].pc = "plan_begin"
    /\ tx' = [tx EXCEPT ![p].pc = "plan_snapshot",
                        ![p].cand = {i \in DOMAIN plans :
                                        plans[i].user_type = tx[p].row.user_type}]
    /\ UNCHANGED <<call, clock, plans, subs, pkgs>>

\* the selected rows whose latest version still satisfies the WHERE of the UPDATE
UnsetRows(p) == {i \in tx[p].cand : plans[i].user_type = tx[p].row.user_type}

\* the UPDATE locks the selected rows, waiting for the transactions that hold
\* them, and unsets is_default on those that still satisfy its WHERE
UnsetSelected(p) ==
    /\ tx[p].pc = "plan_snapshot"
    /\ \A i \in tx[p].cand : ~LockedByOther(p, i)
    /\ tx' = [tx EXCEPT ![p].pc = "plan_unset",
                        ![p].locks = tx[p].cand,
                        ![p].w = [i \in UnsetRows(p) |->
                                     [plans[i] EXCEPT !.is_default = FALSE]]]
    /\ UNCHANGED <<call, clock, plans, subs, pkgs>>

\* super().save(): the UPDATE of the row of the instance (which waits for the
\* transaction that holds the row), or the INSERT of a new row at the commit
WriteInstance(p) ==
    /\ tx[p].pc = "plan_unset"
    /\ tx[p].id # NULL => ~LockedByOther(p, tx[p].id)
    /\ IF tx[p].id = NULL
       THEN tx' = [tx EXCEPT ![p].pc = "plan_written"]
       ELSE tx' = [tx EXCEPT ![p].pc = "plan_written",
                             ![p].locks = @ \cup {tx[p].id},
                             ![p].w = [i \in DOMAIN tx[p].w \cup {tx[p].id} |->
                                          IF i = tx[p].id THEN tx[p].row ELSE tx[p].w[i]]]
    /\ UNCHANGED <<call, clock, plans, subs, pkgs>>

\* the plan table with the writes of p
PlansCommitted(p) ==
    LET t == [i \in DOMAIN plans |-> IF i \in DOMAIN tx[p].w THEN tx[p].w[i] ELSE plans[i]]
    IN  IF tx[p].id = NULL THEN Append(t, tx[p].row) ELSE t

\* the atomic block of save() is left: COMMIT
CommitSave(p) ==
    /\ tx[p].pc = "plan_written"
    /\ tx[p].id = NULL => Len(plans) < MaxPlans + Cardinality(Procs)
    /\ plans' = PlansCommitted(p)
    /\ tx' = [tx EXCEPT ![p] = Return(p, OK)]
    /\ UNCHANGED <<call, clock, subs, pkgs>>

\* the statement p has issued waits for a row lock of the other caller
SaveBlocked(p) ==
    \/ tx[p].pc = "plan_snapshot" /\ \E i \in tx[p].cand : LockedByOther(p, i)
    \/ tx[p].pc = "plan_unset" /\ tx[p].id # NULL /\ LockedByOther(p, tx[p].id)

\* p issues a statement and the database makes it wait
WaitSave(p) ==
    /\ SaveBlocked(p)
    /\ ~tx[p].waited
    /\ tx' = [tx EXCEPT ![p].waited = TRUE]
    /\ UNCHANGED <<call, clock, plans, subs, pkgs>>

\* both callers wait for each other: the database detects the deadlock and
\* aborts the transaction of one of them
DeadlockDetected(p) ==
    /\ SaveBlocked(p)
    /\ SaveBlocked(Other(p))
    /\ Abort(p, OperationalError)
    /\ UNCHANGED <<call, clock, plans, subs, pkgs>>

\* an empty plan table, or the plans of the ledger
InitPlansConcurrent ==
    /\ clock = 0
    /\ plans \in {<<>>, Append(DefaultPlans, PremiumPlan)}
    /\ subs = <<>>
    /\ pkgs = <<>>
    /\ tx = [p \in Procs |-> Idle(OK)]
    /\ call = NoCall

NextPlansConcurrent ==
    \E p \in Procs :
        \/ \E id \in DOMAIN plans \cup {NULL}, ut \in {PERSON, ORGANIZATION} :
              BeginSave(p, id, ut)
        \/ SnapshotDefaults(p)
        \/ UnsetSelected(p)
        \/ WriteInstance(p)
        \/ CommitSave(p)
        \/ WaitSave(p)
        \/ DeadlockDetected(p)

SpecPlansConcurrent == InitPlansConcurrent /\ [][NextPlansConcurrent]_vars

----------------------------------------------------------------------------
(* Subscription.min_storage_package_quantity *)

\* the largest account.storage_quota_used_mb
MaxUsedMb == 2500

\* the values of plan.storage_mb: none, the field default, one package, one more
IncludedMb == {0, 10, 1000, 1001}

\* the megabytes of one storage package
PackageMb == 1000

\* max(a, b)
Max(a, b) == IF a >= b THEN a ELSE b

\* math.ceil(n / d) for integers n >= 0 and d > 0
CeilDivFloor(n, d) == n \div d

CeilDiv(n, d) == IF n % d = 0 THEN n \div d ELSE (n \div d) + 1

\* math.ceil(max(used - included, 0) / 1000)
MinStoragePackageQuantity(used, included) ==
    CeilDiv(Max(used - included, 0), PackageMb)

\* the property is read once, for an account and a plan
min_storage_package_quantity(used, included) ==
    /\ call = NoCall
    /\ call' = [fn |-> "min_storage_package_quantity", args |-> <<used, included>>,
                ret |-> MinStoragePackageQuantity(used, included)]
    /\ UNCHANGED <<clock, plans, subs, pkgs, tx>>

InitQuantity ==
    /\ clock = 0
    /\ plans = Append(DefaultPlans, PremiumPlan)
    /\ subs = <<DefaultPlanSubscription(1, 1, 0)>>
    /\ pkgs = <<>>
    /\ tx = [p \in Procs |-> Idle(OK)]
    /\ call = NoCall

NextQuantity ==
    \E used \in 0..MaxUsedMb, included \in IncludedMb :
        min_storage_package_quantity(used, included)

SpecQuantity == InitQuantity /\ [][NextQuantity]_vars

----------------------------------------------------------------------------
(* RoleChoiceField and StatusChoiceField (core/serializers.py) *)

\* the entries of a choice table
MaxChoices == 3

KeyError == "KeyError"

\* the internal codes and the display labels of the choice tables
ChoiceCodes == 1..MaxChoices

ChoiceLabels == {"admin", "manager", "reader"}

\* what a client can send: a display label, a code written out, anything else
ChoiceInputs == ChoiceLabels \cup {"1", "unknown"}

\* the two fields, which differ in the message of their validation error
ChoiceFields == {"role", "status"}

\* self._choices of a field: the (code, label) pairs of ROLE_CHOICES or
\* STATUS_CHOICES in their order, a code and a label occurring once each
ChoiceTables ==
    UNION {{t \in [1..n -> [code : ChoiceCodes, label : ChoiceLabels]] :
               \A i \in 1..n : \A j \in 1..n :
                   i # j => (t[i].code # t[j].code /\ t[i].label # t[j].label)} :
           n \in 0..MaxChoices}

\* list(self._choices.values())
ChoiceValues(table) == [i \in DOMAIN table |-> table[i].label]

\* to_representation(obj): self._choices[obj]
ToRepresentation(table, obj) ==
    IF \E i \in DOMAIN table : table[i].code = obj
    THEN [res |-> OK,
          ret |-> table[CHOOSE i \in DOMAIN table : table[i].code = obj].label]
    ELSE [res |-> KeyError, ret |-> NULL]

\* for i in self._choices: if self._choices[i] == data: return i
RECURSIVE FirstCodeOf(_, _, _)
FirstCodeOf(table, data, i) ==
    IF i > Len(table)
    THEN NULL
    ELSE IF table[i].label = data
         THEN table[i].code
         ELSE FirstCodeOf(table, data, i + 1)

\* to_internal_value(data) of the field
ToInternalValueSilent(field, table, data) ==
    [res |-> OK, ret |-> FirstCodeOf(table, data, 1), detail |-> <<>>]

ToInternalValue(field, table, data) ==
    IF FirstCodeOf(table, data, 1) # NULL
    THEN [res |-> OK, ret |-> FirstCodeOf(table, data, 1), detail |-> <<>>]
    ELSE [res |-> ValidationError, ret |-> NULL,
          detail |-> <<"Invalid " \o field \o ". Acceptable values are", ChoiceValues(table)>>]

to_representation(obj) ==
    /\ call.fn # "none"
    /\ call' = [call EXCEPT !.fn = "to_representation", !.args[3] = <<obj>>,
                            !.ret = ToRepresentation(call.args[2], obj)]
    /\ UNCHANGED <<clock, plans, subs, pkgs, tx>>

to_internal_value(data) ==
    /\ call.fn # "none"
    /\ call' = [call EXCEPT !.fn = "to_internal_value", !.args[3] = <<data>>,
                            !.ret = ToInternalValue(call.args[1], call.args[2], data)]
    /\ UNCHANGED <<clock, plans, subs, pkgs, tx>>

\* a field constructed with its choices
InitChoiceField ==
    /\ clock = 0
    /\ plans = <<>>
    /\ subs = <<>>
    /\ pkgs = <<>>
    /\ tx = [p \in Procs |-> Idle(OK)]
    /\ \E f \in ChoiceFields, t \in ChoiceTables :
          call = [fn |-> "__init__", args |-> <<f, t, <<>>>>, ret |-> NULL]

NextChoiceField ==
    \/ \E obj \in {call.args[2][i].code : i \in DOMAIN call.args[2]} : to_representation(obj)
    \/ \E data \in ChoiceInputs : to_internal_value(data)

SpecChoiceField == InitChoiceField /\ [][NextChoiceField]_vars

----------------------------------------------------------------------------
(* The calls that can be made in a state *)

UpdateArgs ==
    [id : 1..MaxSubs, status : StatusArgs, since : Times, until : Times \cup {NULL}]

UpdateOut(c) ==
    UpdateSubscription(subs, c.id, c.status, c.since, c.until, NULL, clock)

\* the other subscriptions of the account of c.id that are active now
OthersOf(c) ==
    ActiveSubscriptions(subs, subs[c.id].account, clock) \ {c.id}

----------------------------------------------------------------------------
(* C1: at every instant, the active query selects at most one subscription *)
(* of each account.                                                        *)
OneActivePerAccount ==
    \A a \in Accounts : \A now \in Times :
        Cardinality(ActiveSubscriptions(subs, a, now)) <= 1

(* C2: a successful update_subscription(B, status, activeSince, activeUntil) *)
(* leaves every other subscription A of the account that was active with    *)
(* active_until = activeSince and status inactive_cancelled, and B with      *)
(* exactly the given status, active_since and active_until.                  *)
UpdateClosesOthers ==
    \A c \in UpdateArgs :
        (c.id \in DOMAIN subs /\ UpdateOut(c).res = OK) =>
            LET t == UpdateOut(c).subs
            IN  /\ \A A \in OthersOf(c) :
                      /\ t[A].active_until = c.since
                      /\ t[A].active_until = t[c.id].active_since
                      /\ t[A].status = INACTIVE_CANCELLED
                /\ t[c.id].status = c.status
                /\ t[c.id].active_since = c.since
                /\ t[c.id].active_until = c.until
                /\ UpdateOut(c).ret = c.id

\* a state where B is activated while two other subscriptions of the account are active
UpdateClosesOthersWitness ==
    \E c \in UpdateArgs :
        /\ c.id \in DOMAIN subs
        /\ Cardinality(OthersOf(c)) >= 2
        /\ \E A \in OthersOf(c) : subs[A].active_until = NULL
        /\ UpdateOut(c).res = OK

(* C3: update_subscription is all-or-nothing: a call that fails (the target *)
(* row missing, a range or exclusion error on any statement) leaves every   *)
(* subscription as it was, and returns nothing.                             *)
UpdateAllOrNothing ==
    \A c \in UpdateArgs :
        UpdateOut(c).res # OK =>
            /\ UpdateOut(c).subs = subs
            /\ UpdateOut(c).ret = NULL

\* a state where the close-out has been applied and the save of the target fails
UpdateAllOrNothingWitness ==
    \E c \in UpdateArgs :
        /\ c.id \in DOMAIN subs
        /\ OthersOf(c) # {}
        /\ CloseOthers(subs, c.id, c.since, clock) # subs
        /\ CheckSubscriptions(CloseOthers(subs, c.id, c.since, clock), OthersOf(c)) = OK
        /\ UpdateOut(c).res \in {IntegrityError, DataError}

----------------------------------------------------------------------------
(* C5: get_or_create_active_subscription(account) returns the subscription  *)
(* active now and changes nothing; with none active it creates exactly one  *)
(* subscription on the default plan of the user type of the account,        *)
(* active_paid, active since now and open-ended, and returns it; a second   *)
(* call right after returns the same subscription and creates nothing.      *)
GetOrCreateReturnsActive ==
    \A a \in Accounts :
        LET act == ActiveSubscriptions(subs, a, clock)
            out == GetOrCreate(subs, a, clock)
            again == GetOrCreate(out.subs, a, clock)
        IN  /\ out.res = OK
            /\ act # {} => (out.ret \in act /\ out.subs = subs)
            /\ act = {} =>
                  /\ out.subs = Append(subs, out.subs[Len(out.subs)])
                  /\ out.ret = Len(out.subs)
                  /\ out.subs[out.ret].account = a
                  /\ out.subs[out.ret].plan \in DefaultPlanIds(AccountUserType(a))
                  /\ out.subs[out.ret].status = ACTIVE_PAID
                  /\ out.subs[out.ret].active_since = clock
                  /\ out.subs[out.ret].active_until = NULL
            /\ again.res = OK
            /\ again.ret = out.ret
            /\ again.subs = out.subs

(* C6: create_default_plan_subscription(account, activeSince) called while *)
(* the account has a subscription active now raises, creates no            *)
(* subscription and changes none.                                          *)
CreateDefaultArgs == [account : Accounts, since : Times \cup {NULL}]

CreateDefaultRefusesWhenActive ==
    \A c \in CreateDefaultArgs :
        ActiveSubscriptions(subs, c.account, clock) # {} =>
            /\ CreateDefault(subs, c.account, c.since, clock).res # OK
            /\ CreateDefault(subs, c.account, c.since, clock).subs = subs
            /\ CreateDefault(subs, c.account, c.since, clock).ret = NULL

\* a state where an active subscription exists and only the test for it stops the insert
CreateDefaultRefusesWitness ==
    \E c \in CreateDefaultArgs :
        /\ ActiveSubscriptions(subs, c.account, clock) # {}
        /\ CreateDefaultInsert(subs, c.account, c.since, clock).res = OK
        /\ CreateDefault(subs, c.account, c.since, clock).res = AttributeError

----------------------------------------------------------------------------
PackageArgs == [sid : 1..MaxSubs, type : PackageTypes, quantity : 0..MaxQuantity]

PackageOut(c) == UpdatePackageQuantity(pkgs, c.sid, c.type, c.quantity, clock)

(* C7: update_package_quantity with quantity > 0 on a premium subscription *)
(* closes the active package of the type at now, creates exactly one new   *)
(* package of the subscription, type and quantity, active since the same   *)
(* now and open-ended, and returns it.                                     *)
PackageQuantityReplaces ==
    \A c \in PackageArgs :
        (c.sid \in DOMAIN subs /\ PlanIsPremium(subs[c.sid].plan) /\ c.quantity > 0
         /\ Len(pkgs) < MaxPkgs) =>
            LET out == PackageOut(c)
                old == ActivePackages(pkgs, c.sid, c.type, clock)
            IN  /\ out.res = OK
                /\ Len(out.pkgs) = Len(pkgs) + 1
                /\ out.ret = Len(out.pkgs)
                /\ out.pkgs[out.ret] = NewPackage(c.sid, c.type, c.quantity, clock)
                /\ \A i \in DOMAIN pkgs :
                      out.pkgs[i] = IF i \in old
                                    THEN [pkgs[i] EXCEPT !.active_until = clock]
                                    ELSE pkgs[i]

(* C8: update_package_quantity(sub, STORAGE, 0) on a premium subscription *)
(* with an active storage package sets the active_until of that package   *)
(* to now, creates no package and returns none.                           *)
PackageQuantityZeroCloses ==
    \A c \in PackageArgs :
        (c.sid \in DOMAIN subs /\ PlanIsPremium(subs[c.sid].plan) /\ c.quantity = 0
         /\ ActivePackages(pkgs, c.sid, STORAGE, clock) # {}) =>
            LET out == PackageOut(c)
                old == ActivePackages(pkgs, c.sid, c.type, clock)
            IN  /\ out.res = OK
                /\ out.ret = NULL
                /\ Len(out.pkgs) = Len(pkgs)
                /\ \A i \in old : out.pkgs[i].active_until = clock

(* C9: update_package_quantity on a subscription whose plan is not premium *)
(* fails by its assertion, for every type and quantity, and leaves every   *)
(* package as it was.                                                      *)
PackageQuantityNeedsPremium ==
    \A c \in PackageArgs :
        (c.sid \in DOMAIN subs /\ ~plans[subs[c.sid].plan].is_premium) =>
            /\ PackageOut(c).res = AssertionError
            /\ PackageOut(c).pkgs = pkgs
            /\ PackageOut(c).ret = NULL

\* a state where a subscription on a plan that is not premium has an active package
PackageQuantityNeedsPremiumWitness ==
    \E c \in PackageArgs :
        /\ c.sid \in DOMAIN subs
        /\ ~plans[subs[c.sid].plan].is_premium
        /\ ActivePackages(pkgs, c.sid, c.type, clock) # {}
        /\ clock > 0
        /\ PackageOut(c).res = AssertionError

----------------------------------------------------------------------------
PlanSaveArgs ==
    [id : DOMAIN plans \cup {NULL}, code : PlanCodes, user_type : UserTypeArgs,
     is_default : BOOLEAN, is_premium : BOOLEAN]

PlanSaveOut(c) ==
    PlanSave(plans, c.id, c.code, c.user_type, c.is_default, c.is_premium)

\* the plans of table t that are the default of a user type
DefaultsOf(t, userType) ==
    {i \in DOMAIN t : t[i].user_type = userType /\ t[i].is_default}

(* C11: after any sequence of Plan saves at most one plan of a user type has *)
(* is_default set, and a save of a plan with is_default set leaves that plan *)
(* as the only default of its user type.                                     *)
OneDefaultPerUserType ==
    /\ \A ut \in UserTypeArgs : Cardinality(DefaultsOf(plans, ut)) <= 1
    /\ \A c \in PlanSaveArgs :
          (c.is_default /\ PlanSaveOut(c).res = OK) =>
              DefaultsOf(PlanSaveOut(c).plans, c.user_type) = {PlanSaveOut(c).ret}

\* a state where a plan is saved as the default while another plan of its user
\* type is the default
OneDefaultPerUserTypeWitness ==
    \E c \in PlanSaveArgs :
        /\ c.is_default
        /\ PlanSaveOut(c).res = OK
        /\ DefaultsOf(plans, c.user_type) # {}
        /\ PlanSaveOut(c).ret \notin DefaultsOf(plans, c.user_type)

(* C12: Plan.get_or_create_default is idempotent: a second call returns      *)
(* without error and leaves the table the first call left; the table it      *)
(* leaves has at most one default plan of a user type; on an empty table it  *)
(* creates the default person plan and the default organization plan.        *)
GetOrCreateDefaultIdempotent ==
    LET once == GetOrCreateDefault(plans)
        twice == GetOrCreateDefault(once.plans)
    IN  /\ once.res = OK
        /\ twice.res = OK
        /\ twice.plans = once.plans
        /\ \A ut \in UserTypeArgs : Cardinality(DefaultsOf(twice.plans, ut)) <= 1
        /\ Len(plans) = 0 => once.plans = DefaultPlans
        /\ Len(plans) # 0 => once.plans = plans

\* the empty plan table, where the call creates the two plans
GetOrCreateDefaultIdempotentWitness ==
    /\ Len(plans) = 0
    /\ Len(GetOrCreateDefault(plans).plans) = 2

(* C13: the plan Plan.get_or_create_default returns has is_default set, on   *)
(* every plan table: empty, with a default plan, with no default plan.       *)
GetOrCreateDefaultReturnsDefault ==
    LET out == GetOrCreateDefault(plans)
    IN  /\ out.ret # {}
        /\ \A r \in out.ret : out.plans[r].is_default

----------------------------------------------------------------------------
(* C14: min_storage_package_quantity is the least q >= 0 with                *)
(* included + 1000 * q >= used: 0 when used <= included, never negative, and *)
(* ceil((used - included) / 1000) otherwise.                                 *)
MinQuantityIsLeastCover ==
    call.fn = "min_storage_package_quantity" =>
        LET used == call.args[1]
            included == call.args[2]
            q == call.ret
        IN  /\ q >= 0
            /\ included + 1000 * q >= used
            /\ q > 0 => included + 1000 * (q - 1) < used
            /\ used <= included => q = 0
            /\ used > included =>
                  /\ 1000 * q >= used - included
                  /\ 1000 * q < (used - included) + 1000

\* the call with 2500 MB used and 1000 MB included, which returns 2
MinQuantityIsLeastCoverWitness ==
    /\ call.fn = "min_storage_package_quantity"
    /\ call.args = <<2500, 1000>>
    /\ call.ret = 2

----------------------------------------------------------------------------
\* the edges of the lifecycle of the status of a subscription
LifecycleEdges ==
    {<<INACTIVE_DRAFT, INACTIVE_DRAFT_EXPIRED>>,
     <<INACTIVE_DRAFT, INACTIVE_REQUESTED_CREATE>>,
     <<INACTIVE_REQUESTED_CREATE, INACTIVE_AWAITS_PAYMENT>>,
     <<INACTIVE_REQUESTED_CREATE, INACTIVE_CANCELLED>>,
     <<INACTIVE_AWAITS_PAYMENT, ACTIVE_PAID>>,
     <<ACTIVE_PAID, ACTIVE_PAST_DUE>>,
     <<ACTIVE_PAST_DUE, ACTIVE_PAID>>,
     <<ACTIVE_PAID, INACTIVE_CANCELLED>>,
     <<ACTIVE_PAST_DUE, INACTIVE_CANCELLED>>}

(* C15: a subscription is created in inactive_draft, and every change of the *)
(* status of a subscription by the ledger operations is an edge of the       *)
(* lifecycle.                                                                *)
StatusFollowsLifecycle ==
    [][\A i \in DOMAIN subs' :
          IF i \in DOMAIN subs
          THEN \/ subs'[i].status = subs[i].status
               \/ <<subs[i].status, subs'[i].status>> \in LifecycleEdges
          ELSE subs'[i].status = INACTIVE_DRAFT]_vars

----------------------------------------------------------------------------
(* C16: for the choice table of a field, to_internal_value of the            *)
(* representation of a code is that code, the representation of the internal *)
(* value of a display label is that label, and an input that is no display   *)
(* label of the table raises a validation error that lists the labels and    *)
(* yields no code.                                                           *)
ChoiceFieldIsBijection ==
    call.fn # "none" =>
        LET field == call.args[1]
            table == call.args[2]
            labels == {table[i].label : i \in DOMAIN table}
        IN  /\ \A i \in DOMAIN table :
                  /\ ToRepresentation(table, table[i].code).res = OK
                  /\ ToInternalValue(field, table,
                                     ToRepresentation(table, table[i].code).ret).ret
                         = table[i].code
            /\ \A L \in labels :
                  /\ ToInternalValue(field, table, L).res = OK
                  /\ ToRepresentation(table, ToInternalValue(field, table, L).ret).ret = L
            /\ \A data \in ChoiceInputs \ labels :
                  /\ ToInternalValue(field, table, data).res = ValidationError
                  /\ ToInternalValue(field, table, data).ret = NULL
                  /\ ToInternalValue(field, table, data).detail[2] = ChoiceValues(table)
            /\ call.fn = "to_internal_value" =>
                  (call.ret.res = OK <=> call.args[3][1] \in labels)

\* a field with several choices that has rejected an input that is no label of it
ChoiceFieldIsBijectionWitness ==
    /\ call.fn = "to_internal_value"
    /\ Len(call.args[2]) >= 2
    /\ call.args[3] = <<"unknown">>
    /\ call.ret.res = ValidationError
    /\ Len(call.ret.detail[2]) = Len(call.args[2])

----------------------------------------------------------------------------
(* C17: under every interleaving of two concurrent Plan saves that set       *)
(* is_default on different plans, the committed plan table never has two     *)
(* plans of one user type with is_default set.                               *)
ConcurrentSavesOneDefault ==
    \A ut \in UserTypeArgs : Cardinality(DefaultsOf(plans, ut)) <= 1

----------------------------------------------------------------------------
(* C18: every subscription with both bounds set has                          *)
(* active_since <= active_until; a call of update_subscription whose         *)
(* activeSince is earlier than the active_since of an active subscription it *)
(* would close fails and leaves the subscriptions as they were.              *)
SinceNotAfterUntil ==
    /\ \A i \in DOMAIN subs :
          (subs[i].active_since # NULL /\ subs[i].active_until # NULL) =>
              subs[i].active_since <= subs[i].active_until
    /\ \A c \in UpdateArgs :
          (c.id \in DOMAIN subs /\ \E A \in OthersOf(c) : c.since < subs[A].active_since) =>
              /\ UpdateOut(c).res # OK
              /\ UpdateOut(c).subs = subs

\* a state where a call would close an active subscription that began later than
\* the activeSince of the call, and is refused
SinceNotAfterUntilWitness ==
    \E c \in UpdateArgs :
        /\ c.id \in DOMAIN subs
        /\ \E A \in OthersOf(c) : c.since < subs[A].active_since
        /\ UpdateOut(c).res = DataError

(* C19: update_subscription on a subscription of an account leaves every    *)
(* subscription of another account as it was, and every subscription of the *)
(* account other than the target that is not active now; of the other       *)
(* subscriptions it changes only status and active_until, of the target only *)
(* status, active_since and active_until; it creates and deletes no row.     *)
UpdateFrame ==
    \A c \in UpdateArgs :
        c.id \in DOMAIN subs =>
            LET t == UpdateOut(c).subs
            IN  /\ DOMAIN t = DOMAIN subs
                /\ \A i \in DOMAIN subs :
                      /\ subs[i].account # subs[c.id].account => t[i] = subs[i]
                      /\ (i # c.id /\ ~Active(subs[i], clock)) => t[i] = subs[i]
                      /\ i # c.id =>
                            t[i] = [subs[i] EXCEPT !.status = t[i].status,
                                                   !.active_until = t[i].active_until]
                      /\ t[i].account = subs[i].account
                      /\ t[i].plan = subs[i].plan

\* a state where the call succeeds and closes a subscription of the account
\* while a subscription of another account is active
UpdateFrameWitness ==
    \E c \in UpdateArgs :
        /\ c.id \in DOMAIN subs
        /\ UpdateOut(c).res = OK
        /\ OthersOf(c) # {}
        /\ \E i \in DOMAIN subs :
              subs[i].account # subs[c.id].account /\ Active(subs[i], clock)

----------------------------------------------------------------------------
\* instant t lies in the period [active_since, active_until) of the row
InPeriod(row, t) ==
    /\ row.active_since # NULL
    /\ row.active_since <= t
    /\ (row.active_until = NULL \/ t < row.active_until)

(* C4: under every interleaving of the statements of concurrent callers, no *)
(* committed table holds two subscriptions of one account, both with an     *)
(* active_since, whose periods [active_since, active_until) overlap.        *)
CommittedNeverOverlap ==
    \A i \in DOMAIN subs : \A j \in DOMAIN subs :
        (i # j /\ subs[i].account = subs[j].account) =>
            ~\E t \in Times : InPeriod(subs[i], t) /\ InPeriod(subs[j], t)

\* a state where two update_subscription calls have raced: one has committed,
\* and the other, whose statement had to wait for it, has failed with an
\* integrity error
SecondWriterFails ==
    \E p \in Procs :
        /\ tx[p].pc = "idle" /\ tx[p].op = "update"
        /\ tx[p].waited /\ tx[p].res = IntegrityError
        /\ tx[Other(p)].pc = "idle" /\ tx[Other(p)].op = "update"
        /\ tx[Other(p)].res = OK
        /\ \E i \in DOMAIN subs : subs[i].status = INACTIVE_CANCELLED

----------------------------------------------------------------------------
====
